---------------------------- MODULE Spec2Model ----------------------------
(***************************************************************************)
(* Model of the WASM boundary of the staking program                       *)
(* (staking/programs/staking/src/wasm.rs): WasmPositionData, its decode /  *)
(* encode pair, the per-slot queries, the locked balance summary and the   *)
(* exported constants.                                                     *)
(*                                                                         *)
(* PositionData, Position, PositionState and ErrorCode live in             *)
(* crate::state::positions and crate::error, outside wasm.rs.  Their       *)
(* shape is taken from the specification (sections 3, 4.1, 4.2 and 6) and  *)
(* their encoding is the derived Borsh encoding of that shape; the phase   *)
(* classifier and the voting predicate are external collaborators whose    *)
(* answers are environment input.                                          *)
(***************************************************************************)
EXTENDS Integers, Sequences, FiniteSets, TLC

VARIABLES
    buffer,     \* the byte buffer handed to the constructor from_buffer
    record,     \* <<>> before construction, <<r>> once WasmPositionData wraps r
    out,        \* the caller's output buffer as the last as_borsh left it
    call,       \* the last call across the boundary: op, arguments, answers of
                \* the external collaborators, the slots they were asked about,
                \* and the value returned to the caller
    seen_unused \* <<>>, or <<v>>: v is what the first get_unused_index call on
                \* this record returned

vars == <<buffer, record, out, call, seen_unused>>

(***************************************************************************)
(* Bounds of the model.                                                    *)
(***************************************************************************)
\* crate::MAX_POSITIONS, the capacity of the position table, scaled down.
MAX_POSITIONS == 3
\* current_epoch arguments range over 0..MaxEpoch.
MaxEpoch == 1
\* unlocking_duration arguments range over 0..MaxDuration.
MaxDuration == 1

Indices == 0 .. (MAX_POSITIONS - 1)
Epochs == 0 .. MaxEpoch
Durations == 0 .. MaxDuration

(***************************************************************************)
(* u64.  A value is its four 16-bit limbs, least significant first, so     *)
(* that the full 64-bit range and its overflow are represented exactly.    *)
(***************************************************************************)
Base == 2 ^ 16
\* size of a u64 on the wire, in bytes
U64_LEN == 8

U64Of(n) == <<n, 0, 0, 0>>
U64_ZERO == U64Of(0)
U64_MAX == <<Base - 1, Base - 1, Base - 1, Base - 1>>
U64_HALF == <<0, 0, 0, Base \div 2>>

\* The exact sum of two u64: four limbs and the carry out of bit 63.
WideAdd(a, b) ==
    LET s1 == a[1] + b[1]
        s2 == a[2] + b[2] + (s1 \div Base)
        s3 == a[3] + b[3] + (s2 \div Base)
        s4 == a[4] + b[4] + (s3 \div Base)
    IN  [limbs |-> <<s1 % Base, s2 % Base, s3 % Base, s4 % Base>>,
         carry |-> s4 \div Base]

\* u64::wrapping_add: the carry is dropped.
wrapping_add(a, b) == <<WideAdd(a, b).limbs>>

\* u64::checked_add: <<>> (None) on overflow, <<sum>> (Some) otherwise.
checked_add(a, b) ==
    LET w == WideAdd(a, b)
    IN  IF w.carry # 0 THEN <<>> ELSE <<w.limbs>>

\* u64::to_le_bytes and u64::from_le_bytes.
to_le_bytes(x) ==
    <<x[1] % 256, x[1] \div 256, x[2] % 256, x[2] \div 256,
      x[3] % 256, x[3] \div 256, x[4] % 256, x[4] \div 256>>

from_le_bytes(b) ==
    <<b[1] + 256 * b[2], b[3] + 256 * b[4], b[5] + 256 * b[6], b[7] + 256 * b[8]>>

(***************************************************************************)
(* Results.  Internally an anchor_lang::Result; across the boundary the    *)
(* error is only its message (convert_error).  A Rust panic unwinds out    *)
(* of the export and traps the WASM instance: no value is returned.        *)
(***************************************************************************)
Ok(v) == [tag |-> "Ok", val |-> v]
Err(e) == [tag |-> "Err", err |-> e]
Panic(why) == [tag |-> "Panic", why |-> why]

\* Display of an internal error: its message, here the name of its code.
to_string(e) == e.code

JsErr(msg) == [tag |-> "Err", message |-> msg]

convert_error(return_val) ==
    CASE return_val.tag = "Ok" -> Ok(return_val.val)
      [] return_val.tag = "Err" -> JsErr(to_string(return_val.err))
      [] OTHER -> return_val

ErrorCode(name) == [code |-> name]

(***************************************************************************)
(* The ledger record.  A slot is <<>> (empty) or <<position>>.             *)
(***************************************************************************)
Position(amount, activation_epoch, unlocking_start) ==
    [amount |-> amount, activation_epoch |-> activation_epoch,
     unlocking_start |-> unlocking_start]

PositionData(positions) == [positions |-> positions]

Occupied(r) == {i \in Indices : r.positions[i] # <<>>}

(***************************************************************************)
(* Wire format: the type tag, then the Borsh encoding of the payload: the  *)
(* MAX_POSITIONS slots in order, each a presence byte followed, when the   *)
(* slot is occupied, by the position's fields in order.  An absent value   *)
(* is its presence byte alone, so the length of an encoding varies with    *)
(* the record; the lengths below are those of the longest encoding.  The   *)
(* encoder is the one as_borsh names ("Serialize this account using        *)
(* Borsh"); the decoder is not in the source and follows section 4.1.      *)
(***************************************************************************)
\* PositionData::discriminator(): the first 8 bytes of sha256("account:PositionData")
DISCRIMINATOR == <<85, 195, 241, 79, 124, 192, 79, 11>>
TAG_LEN == Len(DISCRIMINATOR)

Zeros(n) == [k \in 1 .. n |-> 0]

OPTION_U64_LEN == 1 + U64_LEN
POSITION_LEN == U64_LEN + U64_LEN + OPTION_U64_LEN
SLOT_LEN == 1 + POSITION_LEN
\* get_packed_len::<PositionData>(): the length of the longest payload encoding
packed_len == MAX_POSITIONS * SLOT_LEN
\* std::mem::size_of: the sizes of the in-memory layout.  An Option<u64> is a
\* tag padded to the alignment of u64 and the value; an Option<Position> keeps
\* its tag in the spare values of the position's own option tag.
size_of_Option_u64 == U64_LEN + U64_LEN
size_of_Position == U64_LEN + U64_LEN + size_of_Option_u64
size_of_Option_Position == size_of_Position
\* std::mem::size_of::<PositionData>(): the fixed struct size of the payload
size_of_PositionData == MAX_POSITIONS * size_of_Option_Position
\* the encoded length: the type tag length and the fixed struct size
ENCODED_LEN == TAG_LEN + size_of_PositionData

SerializeOptionU64(o) ==
    IF o = <<>> THEN <<0>> ELSE <<1>> \o to_le_bytes(o[1])

SerializePosition(p) ==
    to_le_bytes(p.amount) \o to_le_bytes(p.activation_epoch)
        \o SerializeOptionU64(p.unlocking_start)

SerializeSlot(s) ==
    IF s = <<>> THEN <<0>> ELSE <<1>> \o SerializePosition(s[1])

RECURSIVE SerializeSlots(_, _)
SerializeSlots(positions, i) ==
    IF i >= MAX_POSITIONS THEN <<>>
    ELSE SerializeSlot(positions[i]) \o SerializeSlots(positions, i + 1)

\* BorshSerialize::serialize of the payload: the bytes it writes, in order.
serialize(r) == SerializeSlots(r.positions, 0)

\* Decoders read buf from the cursor pos (the number of bytes consumed) and
\* return <<>> on failure, <<[val, pos]>> on success.
ReadU64(buf, pos) ==
    IF pos + U64_LEN > Len(buf) THEN <<>>
    ELSE <<[val |-> from_le_bytes(SubSeq(buf, pos + 1, pos + U64_LEN)),
            pos |-> pos + U64_LEN]>>

DeserializeOptionU64(buf, pos) ==
    IF pos + 1 > Len(buf) THEN <<>>
    ELSE CASE buf[pos + 1] = 0 -> <<[val |-> <<>>, pos |-> pos + 1]>>
           [] buf[pos + 1] = 1 ->
                 LET v == ReadU64(buf, pos + 1)
                 IN  IF v = <<>> THEN <<>>
                     ELSE <<[val |-> <<v[1].val>>, pos |-> v[1].pos]>>
           [] OTHER -> <<>>

DeserializePosition(buf, pos) ==
    LET a == ReadU64(buf, pos) IN
    IF a = <<>> THEN <<>>
    ELSE LET e == ReadU64(buf, a[1].pos) IN
         IF e = <<>> THEN <<>>
         ELSE LET u == DeserializeOptionU64(buf, e[1].pos) IN
              IF u = <<>> THEN <<>>
              ELSE <<[val |-> Position(a[1].val, e[1].val, u[1].val),
                      pos |-> u[1].pos]>>

DeserializeSlot(buf, pos) ==
    IF pos + 1 > Len(buf) THEN <<>>
    ELSE CASE buf[pos + 1] = 0 -> <<[val |-> <<>>, pos |-> pos + 1]>>
           [] buf[pos + 1] = 1 ->
                 LET p == DeserializePosition(buf, pos + 1)
                 IN  IF p = <<>> THEN <<>>
                     ELSE <<[val |-> <<p[1].val>>, pos |-> p[1].pos]>>
           [] OTHER -> <<>>

\* The slots from index Len(slots) on; <<>> on failure, <<slots>> on success.
RECURSIVE DeserializeSlots(_, _, _)
DeserializeSlots(buf, pos, slots) ==
    IF Len(slots) >= MAX_POSITIONS THEN <<slots>>
    ELSE LET s == DeserializeSlot(buf, pos)
         IN  IF s = <<>> THEN <<>>
             ELSE DeserializeSlots(buf, s[1].pos, Append(slots, s[1].val))

\* AccountDeserialize::try_deserialize, as specified (4.1): a buffer shorter
\* than the encoded length or with another tag is a format error; then the
\* payload is read in schema order, all or nothing.  Bytes after the payload
\* encoding are not read.
try_deserialize(buf) ==
    IF Len(buf) < ENCODED_LEN THEN Err(ErrorCode("FormatError"))
    ELSE IF SubSeq(buf, 1, TAG_LEN) # DISCRIMINATOR THEN Err(ErrorCode("FormatError"))
    ELSE LET slots == DeserializeSlots(buf, TAG_LEN, <<>>)
         IN  IF slots = <<>>
             THEN Err(ErrorCode("FormatError"))
             ELSE Ok(PositionData([i \in Indices |-> slots[1][i + 1]]))

(***************************************************************************)
(* from_buffer                                                             *)
(***************************************************************************)
from_buffer_impl(buf) ==
    LET position_data == try_deserialize(buf)
    IN  IF position_data.tag = "Err" THEN position_data
        ELSE Ok(position_data.val)

\* No call has been made yet / the last call has returned to the caller.
NoCall == [op |-> "none"]
Idle == [op |-> "idle"]

\* Every export is synchronous: a call starts only when none is in progress.
Return ==
    /\ call.op \notin {"none", "idle"}
    /\ call' = Idle
    /\ UNCHANGED <<buffer, record, out, seen_unused>>

FromBuffer ==
    /\ call = NoCall
    /\ record = <<>>
    /\ LET r == from_buffer_impl(buffer)
       IN  /\ record' = IF r.tag = "Ok" THEN <<r.val>> ELSE <<>>
           /\ call' = [op |-> "from_buffer",
                       result |-> IF r.tag = "Ok" THEN Ok("WasmPositionData")
                                  ELSE convert_error(r)]
    /\ UNCHANGED <<buffer, out, seen_unused>>

(***************************************************************************)
(* borshLength, asBorsh, POSITIONS_ACCOUNT_SIZE                            *)
(***************************************************************************)
get_borsh_length == packed_len

POSITIONS_ACCOUNT_SIZE == Len(DISCRIMINATOR) + size_of_PositionData

\* <&mut [u8] as Write>::write_all: copies what fits, advances the slice, and
\* fails with WriteZero unless everything was written.
write_all(writer, data) ==
    LET room == Len(writer.buf) - writer.pos
        n == IF Len(data) < room THEN Len(data) ELSE room
    IN  [writer |-> [buf |-> [k \in 1 .. Len(writer.buf) |->
                                 IF k > writer.pos /\ k <= writer.pos + n
                                 THEN data[k - writer.pos] ELSE writer.buf[k]],
                     pos |-> writer.pos + n],
         ok |-> n = Len(data)]

as_borsh_impl_no_tag(r, output_buffer) ==
    LET w == write_all([buf |-> output_buffer, pos |-> 0], serialize(r))
    IN  [result |-> IF w.ok THEN Ok("unit") ELSE Err(ErrorCode("WriteZero")),
         buf |-> w.writer.buf]

as_borsh_impl(r, output_buffer) ==
    LET w1 == write_all([buf |-> output_buffer, pos |-> 0], DISCRIMINATOR)
    IN  IF ~w1.ok
        THEN [result |-> Err(ErrorCode("WriteZero")), buf |-> w1.writer.buf]
        ELSE LET w2 == write_all(w1.writer, serialize(r))
             IN  [result |-> IF w2.ok THEN Ok("unit") ELSE Err(ErrorCode("WriteZero")),
                  buf |-> w2.writer.buf]

\* Output buffers the caller passes for record r: every length around what
\* r's encoding takes, borshLength, and around the encoded length, filled with a byte
\* that shows what was written.
OutLens(r) ==
    LET need == TAG_LEN + Len(serialize(r))
    IN  {TAG_LEN - 1, need - 1, need, need + 1,
         packed_len, TAG_LEN + packed_len, ENCODED_LEN - 1, ENCODED_LEN}
FillBytes == {0, 255}

GetBorshLength ==
    /\ call = Idle
    /\ record # <<>>
    /\ call' = [op |-> "get_borsh_length", result |-> get_borsh_length]
    /\ UNCHANGED <<buffer, record, out, seen_unused>>

AsBorsh ==
    /\ call = Idle
    /\ record # <<>>
    /\ \E n \in OutLens(record[1]), fill \in FillBytes :
         LET fresh == [k \in 1 .. n |-> fill]
             r == as_borsh_impl(record[1], fresh)
         IN  /\ out' = r.buf
             /\ call' = [op |-> "as_borsh", given |-> fresh,
                         result |-> convert_error(r.result)]
    /\ UNCHANGED <<buffer, record, seen_unused>>

\* Constants::POSITIONS_ACCOUNT_SIZE needs no record.
PositionsAccountSize ==
    /\ call \in {NoCall, Idle}
    /\ call' = [op |-> "POSITIONS_ACCOUNT_SIZE", result |-> POSITIONS_ACCOUNT_SIZE]
    /\ UNCHANGED <<buffer, record, out, seen_unused>>

(***************************************************************************)
(* Input buffers of the codec specification: the encodings of a family of  *)
(* records, every truncation that matters, and every single-byte change.   *)
(***************************************************************************)
CodecSlots ==
    {<<>>,
     <<Position(U64Of(1), U64_ZERO, <<>>)>>,
     <<Position(U64_MAX, U64Of(1), <<U64Of(1)>>)>>}

Encode(r) == DISCRIMINATOR \o serialize(r)

\* An account holding r: r's encoding at the start of a zero-filled buffer of
\* the encoded length.
Account(r) == Encode(r) \o Zeros(ENCODED_LEN - Len(Encode(r)))

\* Truncations: around the tag, around the end of r's encoding, and one byte
\* short of the encoded length.
CutLens(r) ==
    {0, TAG_LEN - 1, TAG_LEN, Len(Encode(r)) - 1, Len(Encode(r)), ENCODED_LEN - 1}
PokeBytes == {0, 255}

Poke(b, p, v) == [b EXCEPT ![p] = v]

\* Where slot i starts in r's encoding (the place of its presence byte).
RECURSIVE SlotStart(_, _)
SlotStart(r, i) ==
    IF i = 0 THEN TAG_LEN + 1
    ELSE SlotStart(r, i - 1) + Len(SerializeSlot(r.positions[i - 1]))

\* The bytes changed: the ends of the tag; in every slot the presence byte, the
\* byte after it and the last byte; the byte after the encoding and the last
\* byte of the account.
PokePlaces(r) ==
    ({1, TAG_LEN, Len(Encode(r)) + 1, ENCODED_LEN} \cup
     UNION {{SlotStart(r, i), SlotStart(r, i) + 1,
             SlotStart(r, i) + Len(SerializeSlot(r.positions[i])) - 1} : i \in Indices})
        \cap (1 .. ENCODED_LEN)

Variants(r) ==
    {Account(r)} \cup {SubSeq(Account(r), 1, n) : n \in CutLens(r)}
                 \cup {Poke(Account(r), p, v) : p \in PokePlaces(r), v \in PokeBytes}

CodecBuffers ==
    UNION {Variants(PositionData(ps)) : ps \in [Indices -> CodecSlots]}

InitCodec ==
    /\ buffer \in CodecBuffers
    /\ record = <<>>
    /\ out = <<>>
    /\ call = [op |-> "none"]
    /\ seen_unused = <<>>

NextCodec ==
    \/ FromBuffer
    \/ GetBorshLength
    \/ AsBorsh
    \/ PositionsAccountSize
    \/ Return

SpecCodec == InitCodec /\ [][NextCodec]_vars


(***************************************************************************)
(* The external collaborators.  PositionState is the classifier's range;   *)
(* the classifier may also fail.  What it answers for a position at an     *)
(* (epoch, duration) pair is the environment's choice.                     *)
(***************************************************************************)
CountedStates == {"LOCKING", "LOCKED", "UNLOCKING"}
PositionState == CountedStates \cup {"UNLOCKED"}
ClassifierAnswers == {Ok(st) : st \in PositionState} \cup {Err(ErrorCode("ClassifierError"))}

(***************************************************************************)
(* getPositionState, isPositionVoting.  `answer` is what the collaborator  *)
(* returns if it is asked; `asked` lists the slots it was asked about.     *)
(***************************************************************************)
get_position_state_impl_default(r, index, answer) ==
    IF index >= MAX_POSITIONS
    THEN [result |-> Panic("index out of bounds"), asked |-> <<>>]
    ELSE IF r.positions[index] # <<>>
         THEN [result |-> answer, asked |-> <<index>>]
         ELSE [result |-> Ok("UNLOCKED"), asked |-> <<>>]

get_position_state_impl(r, index, answer) ==
    IF index >= MAX_POSITIONS
    THEN [result |-> Panic("index out of bounds"), asked |-> <<>>]
    ELSE IF r.positions[index] # <<>>
         THEN [result |-> IF answer.tag = "Err" THEN answer ELSE Ok(answer.val),
               asked |-> <<index>>]
         ELSE [result |-> Err(ErrorCode("PositionNotInUse")), asked |-> <<>>]

is_position_voting_impl(r, index, answer) ==
    IF index >= MAX_POSITIONS
    THEN [result |-> Panic("index out of bounds"), asked |-> <<>>]
    ELSE IF r.positions[index] # <<>>
         THEN [result |-> Ok(answer), asked |-> <<index>>]
         ELSE [result |-> Err(ErrorCode("PositionNotInUse")), asked |-> <<>>]

\* index is a u16: every slot, the first index past the table, and the largest.
IndexArgs == Indices \cup {MAX_POSITIONS, 65535}

GetPositionState ==
    /\ call = Idle
    /\ record # <<>>
    /\ \E index \in IndexArgs, e \in Epochs, d \in Durations, answer \in ClassifierAnswers :
         LET r == get_position_state_impl(record[1], index, answer)
         IN  call' = [op |-> "get_position_state", index |-> index,
                      current_epoch |-> e, unlocking_duration |-> d,
                      answer |-> answer, asked |-> r.asked,
                      result |-> convert_error(r.result)]
    /\ UNCHANGED <<buffer, record, out, seen_unused>>

IsPositionVoting ==
    /\ call = Idle
    /\ record # <<>>
    /\ \E index \in IndexArgs, e \in Epochs, d \in Durations, answer \in BOOLEAN :
         LET r == is_position_voting_impl(record[1], index, answer)
         IN  call' = [op |-> "is_position_voting", index |-> index,
                      current_epoch |-> e, unlocking_duration |-> d,
                      answer |-> answer, asked |-> r.asked,
                      result |-> convert_error(r.result)]
    /\ UNCHANGED <<buffer, record, out, seen_unused>>

(***************************************************************************)
(* getUnusedIndex                                                          *)
(***************************************************************************)
RECURSIVE FirstEmptyFrom(_, _)
FirstEmptyFrom(r, i) ==
    IF i >= MAX_POSITIONS THEN Err(ErrorCode("NoFreeSlot"))
    ELSE IF r.positions[i] = <<>> THEN Ok(i)
    ELSE FirstEmptyFrom(r, i + 1)

\* PositionData::get_unused_index
PositionData_get_unused_index(r) == FirstEmptyFrom(r, 0)

get_unused_index(r) == convert_error(PositionData_get_unused_index(r))

GetUnusedIndex ==
    /\ call = Idle
    /\ record # <<>>
    /\ LET v == get_unused_index(record[1])
       IN  /\ call' = [op |-> "get_unused_index", earlier |-> seen_unused, result |-> v]
           /\ seen_unused' = IF seen_unused = <<>> THEN <<v>> ELSE seen_unused
    /\ UNCHANGED <<buffer, record, out>>

(***************************************************************************)
(* getLockedBalanceSummary.  `answers` maps every occupied slot to what    *)
(* the classifier returns for its position if it is asked.                 *)
(***************************************************************************)
LockedBalanceSummary(locking, locked, unlocking) ==
    [locking |-> locking, locked |-> locked, unlocking |-> unlocking]

\* for i in 0..crate::MAX_POSITIONS, as the sequence of indices visited
SlotRangeRev == [k \in 1 .. MAX_POSITIONS |-> MAX_POSITIONS - k]

SlotRange == [k \in 1 .. MAX_POSITIONS |-> k - 1]

\* The arms of the match: the accumulator a phase is added to, or "skip".
SummaryFieldUnlockingAsLocked(st) ==
    CASE st = "LOCKING" -> "locking"
      [] st = "LOCKED" -> "locked"
      [] st = "UNLOCKING" -> "locked"
      [] OTHER -> "skip"

SummaryField(st) ==
    CASE st = "LOCKING" -> "locking"
      [] st = "LOCKED" -> "locked"
      [] st = "UNLOCKING" -> "unlocking"
      [] OTHER -> "skip"

RECURSIVE SummaryLoop(_, _, _, _, _)
SummaryLoop(r, answers, k, acc, asked) ==
    IF k > Len(SlotRange) THEN [result |-> Ok(acc), asked |-> asked]
    ELSE LET i == SlotRange[k] IN
         IF r.positions[i] = <<>> THEN SummaryLoop(r, answers, k + 1, acc, asked)
         ELSE LET position == r.positions[i][1]
                  st == answers[i]
                  asked1 == Append(asked, i)
              IN  IF st.tag = "Err" THEN [result |-> st, asked |-> asked1]
                  ELSE LET f == SummaryField(st.val) IN
                       IF f = "skip" THEN SummaryLoop(r, answers, k + 1, acc, asked1)
                       ELSE LET sum == checked_add(acc[f], position.amount) IN
                            IF sum = <<>>
                            THEN [result |-> Err(ErrorCode("GenericOverflow")),
                                  asked |-> asked1]
                            ELSE SummaryLoop(r, answers, k + 1,
                                             [acc EXCEPT ![f] = sum[1]], asked1)

get_locked_balance_summary_impl(r, answers) ==
    SummaryLoop(r, answers, 1, LockedBalanceSummary(U64_ZERO, U64_ZERO, U64_ZERO), <<>>)

\* The (current_epoch, unlocking_duration) pairs a summary is asked for.
SummaryArgs == {<<0, 0>>, <<MaxEpoch, MaxDuration>>}

GetLockedBalanceSummary ==
    /\ call = Idle
    /\ record # <<>>
    /\ \E a \in SummaryArgs, answers \in [Occupied(record[1]) -> ClassifierAnswers] :
         LET r == get_locked_balance_summary_impl(record[1], answers)
         IN  call' = [op |-> "get_locked_balance_summary",
                      current_epoch |-> a[1], unlocking_duration |-> a[2],
                      answers |-> answers, asked |-> r.asked,
                      result |-> convert_error(r.result)]
    /\ UNCHANGED <<buffer, record, out, seen_unused>>

(***************************************************************************)
(* Specifications.                                                         *)
(***************************************************************************)
InitFrom(buffers) ==
    /\ buffer \in buffers
    /\ record = <<>>
    /\ out = <<>>
    /\ call = NoCall
    /\ seen_unused = <<>>

\* The per-slot queries, over every table of three kinds of slot.
TableSlots ==
    {<<>>,
     <<Position(U64Of(100), U64_ZERO, <<>>)>>,
     <<Position(U64Of(50), U64Of(1), <<U64Of(1)>>)>>}

TableBuffers == {Account(PositionData(ps)) : ps \in [Indices -> TableSlots]}

Init == InitFrom(TableBuffers)

Next ==
    \/ FromBuffer
    \/ GetPositionState
    \/ IsPositionVoting
    \/ GetUnusedIndex
    \/ Return

Spec == Init /\ [][Next]_vars

\* The balance summary, over every table of amounts at the edges of u64.
U64_MAX_MINUS_1 == <<Base - 2, Base - 1, Base - 1, Base - 1>>
SummaryAmounts == {U64Of(1), U64_HALF, U64_MAX_MINUS_1}

SummarySlots == {<<>>} \cup {<<Position(a, U64_ZERO, <<>>)>> : a \in SummaryAmounts}

SummaryBuffers == {Account(PositionData(ps)) : ps \in [Indices -> SummarySlots]}

InitSummary == InitFrom(SummaryBuffers)

NextSummary ==
    \/ FromBuffer
    \/ GetLockedBalanceSummary
    \/ Return

SpecSummary == InitSummary /\ [][NextSummary]_vars

(***************************************************************************)
(* Vocabulary of the properties.                                           *)
(***************************************************************************)
\* The exact sum of the amounts of the slots in S, computed column by column
\* with a final carry pass: four limbs and what exceeds 64 bits.
RECURSIVE LimbSum(_, _, _)
LimbSum(r, S, k) ==
    IF S = {} THEN 0
    ELSE LET i == CHOOSE x \in S : TRUE
         IN  r.positions[i][1].amount[k] + LimbSum(r, S \ {i}, k)

ExactSum(r, S) ==
    LET c1 == LimbSum(r, S, 1)
        c2 == LimbSum(r, S, 2) + (c1 \div Base)
        c3 == LimbSum(r, S, 3) + (c2 \div Base)
        c4 == LimbSum(r, S, 4) + (c3 \div Base)
    IN  [limbs |-> <<c1 % Base, c2 % Base, c3 % Base, c4 % Base>>,
         carry |-> c4 \div Base]

RECURSIVE Ascending(_)
Ascending(S) ==
    IF S = {} THEN <<>>
    ELSE LET m == CHOOSE x \in S : \A y \in S : x <= y
         IN  <<m>> \o Ascending(S \ {m})

IsSummaryCall == call.op = "get_locked_balance_summary"
AllClassified == \A i \in Occupied(record[1]) : call.answers[i].tag = "Ok"
SlotsIn(st) == {i \in Occupied(record[1]) : call.answers[i] = Ok(st)}
PhaseSum(st) == ExactSum(record[1], SlotsIn(st))
SomePhaseOverflows == \E st \in CountedStates : PhaseSum(st).carry > 0

(***************************************************************************)
(* C1: when the classifier succeeds on every occupied slot and no          *)
(* per-phase sum exceeds 2^64-1, get_locked_balance_summary returns        *)
(* locking, locked and unlocking equal to the sums of amount over exactly  *)
(* the occupied slots classified LOCKING, LOCKED and UNLOCKING; empty      *)
(* slots and other phases add nothing (an empty table gives {0, 0, 0}).    *)
(***************************************************************************)
C1_SummaryIsPhaseSums ==
    (IsSummaryCall /\ AllClassified /\ ~SomePhaseOverflows)
        => call.result = Ok(LockedBalanceSummary(PhaseSum("LOCKING").limbs,
                                                 PhaseSum("LOCKED").limbs,
                                                 PhaseSum("UNLOCKING").limbs))

\* Two slots add up in one phase while a slot in an uncounted phase is left out.
C1_Witness ==
    /\ IsSummaryCall
    /\ AllClassified
    /\ call.result.tag = "Ok"
    /\ Cardinality(SlotsIn("LOCKED")) = 2
    /\ SlotsIn("UNLOCKED") # {}
    /\ call.result.val.locked = PhaseSum("LOCKED").limbs
    /\ call.result.val.locked # U64_ZERO

(***************************************************************************)
(* C2: when the classifier succeeds on every occupied slot, the summary    *)
(* fails with the overflow error exactly when the amounts of one single    *)
(* phase among LOCKING, LOCKED, UNLOCKING add up to more than 2^64-1; the  *)
(* caller then gets the error alone, and neither the other phases nor the  *)
(* total across the three phases cause the failure.                        *)
(***************************************************************************)
C2_OverflowExactlyPerPhase ==
    (IsSummaryCall /\ AllClassified)
        => IF SomePhaseOverflows
           THEN call.result = JsErr("GenericOverflow")
           ELSE call.result.tag = "Ok"

\* One phase overflows by exactly one and the call fails.
C2_Witness ==
    /\ IsSummaryCall
    /\ AllClassified
    /\ \E st \in CountedStates :
          /\ PhaseSum(st).carry = 1
          /\ PhaseSum(st).limbs = U64_ZERO
    /\ call.result = JsErr("GenericOverflow")

\* The three phases together exceed 2^64-1, yet no single one does: no failure.
C2_CrossPhaseTotalIsHarmless ==
    /\ IsSummaryCall
    /\ AllClassified
    /\ ~SomePhaseOverflows
    /\ ExactSum(record[1], UNION {SlotsIn(st) : st \in CountedStates}).carry > 0
    /\ call.result.tag = "Ok"

\* The amounts of an uncounted phase exceed 2^64-1: no failure either.
C2_UncountedPhaseIsHarmless ==
    /\ IsSummaryCall
    /\ AllClassified
    /\ ExactSum(record[1], SlotsIn("UNLOCKED")).carry > 0
    /\ call.result.tag = "Ok"

(***************************************************************************)
(* C10: the summary scans the slots in ascending index order and stops at  *)
(* the first occupied slot where the classifier fails or a checked         *)
(* addition overflows: it returns that slot's error unchanged, asks the    *)
(* classifier about no later slot, and a classifier failure on any         *)
(* occupied slot fails the whole call.                                     *)
(***************************************************************************)
\* Slot i is where the running sum of its phase first may exceed 64 bits.
OverflowsAt(i) ==
    /\ call.answers[i].tag = "Ok"
    /\ call.answers[i].val \in CountedStates
    /\ ExactSum(record[1], {j \in SlotsIn(call.answers[i].val) : j <= i}).carry > 0

FailsAt(i) == call.answers[i].tag = "Err" \/ OverflowsAt(i)

FailingSlots == {i \in Occupied(record[1]) : FailsAt(i)}
FirstFailing == CHOOSE i \in FailingSlots : \A j \in FailingSlots : i <= j

C10_StopsAtFirstFailure ==
    IsSummaryCall
        => IF FailingSlots = {}
           THEN /\ call.result.tag = "Ok"
                /\ call.asked = Ascending(Occupied(record[1]))
           ELSE /\ call.asked = Ascending({i \in Occupied(record[1]) : i <= FirstFailing})
                /\ call.result =
                      IF call.answers[FirstFailing].tag = "Err"
                      THEN JsErr(to_string(call.answers[FirstFailing].err))
                      ELSE JsErr("GenericOverflow")

\* A classifier failure in the middle, between a counted slot and a slot that is
\* never asked about.
C10_Witness ==
    /\ IsSummaryCall
    /\ Occupied(record[1]) = Indices
    /\ call.answers[0] = Ok("LOCKED")
    /\ call.answers[1].tag = "Err"
    /\ call.asked = <<0, 1>>
    /\ call.result = JsErr("ClassifierError")

(***************************************************************************)
(* C4: get_position_state and is_position_voting with an index at or past  *)
(* MAX_POSITIONS return an IndexOutOfRange error value to the caller.      *)
(***************************************************************************)
IsSlotQuery == call.op \in {"get_position_state", "is_position_voting"}

C4_IndexOutOfRangeIsAnError ==
    (IsSlotQuery /\ call.index >= MAX_POSITIONS)
        => call.result = JsErr("IndexOutOfRange")

(***************************************************************************)
(* C5: for every index below MAX_POSITIONS, on an empty slot both queries  *)
(* fail with PositionNotInUse whatever the epoch and duration are, without *)
(* asking the classifier or the voting predicate; on an occupied slot they *)
(* return exactly what the collaborator returns for that slot's position.  *)
(***************************************************************************)
C5_EmptySlotOrDelegate ==
    (IsSlotQuery /\ call.index < MAX_POSITIONS)
        => IF record[1].positions[call.index] = <<>>
           THEN /\ call.result = JsErr("PositionNotInUse")
                /\ call.asked = <<>>
           ELSE /\ call.asked = <<call.index>>
                /\ IF call.op = "is_position_voting"
                   THEN call.result = Ok(call.answer)
                   ELSE IF call.answer.tag = "Ok"
                        THEN call.result = Ok(call.answer.val)
                        ELSE call.result = JsErr(call.answer.err.code)

\* An empty slot between two occupied ones, asked at the latest epoch.
C5_Witness ==
    /\ call.op = "get_position_state"
    /\ call.index = 1
    /\ Occupied(record[1]) = Indices \ {1}
    /\ call.current_epoch = MaxEpoch
    /\ call.unlocking_duration = MaxDuration
    /\ call.result = JsErr("PositionNotInUse")

(***************************************************************************)
(* C3: for every buffer of exactly the encoded length with the correct     *)
(* type tag that decodes, from_buffer followed by as_borsh into a fresh    *)
(* buffer of the encoded length succeeds and reproduces the buffer.        *)
(***************************************************************************)
C3_RoundTrip ==
    (/\ call.op = "as_borsh"
     /\ Len(buffer) = ENCODED_LEN
     /\ call.given = Zeros(ENCODED_LEN))
        => /\ call.result = Ok("unit")
           /\ out = buffer

C7_BorshLengthFitsAsBorsh ==
    /\ call.op = "get_borsh_length"
          => /\ call.result = TAG_LEN + Len(serialize(record[1]))
             /\ call.result = POSITIONS_ACCOUNT_SIZE
    /\ (call.op = "as_borsh" /\ Len(call.given) = get_borsh_length)
          => call.result = Ok("unit")

=============================================================================
